---- MODULE Spec2Model ----
(***************************************************************************)
(* ScoopMath: the fixed-size Vector<Type, Size> and Matrix<Type, Rows,     *)
(* Cols> value types of Math/Vector.hpp and Math/Matrix.hpp.               *)
(*                                                                         *)
(* Type is instantiated as int8_t (the I8Vector / I8Matrix aliases): the   *)
(* operands of every arithmetic operator are promoted to int, so no        *)
(* intermediate overflows, and the store back into a Type narrows the      *)
(* result modulo 2^8.  Arrays are functions over 0..n-1, as in the source. *)
(***************************************************************************)
EXTENDS Integers, Sequences, FiniteSets, TLC

\* ---------------------------------------------------------------- bounds
\* Largest element count Rows*Cols of a matrix of the one-object model.
MaxElems == 6
\* Largest Size of a vector of the one-object model.
MaxSize == 3
\* Largest Rows = Cols of a matrix of the square model.
MaxSquare == 3
\* Largest element count of a square matrix whose contents are enumerated
\* in full; larger ones are drawn from the one-off sample alone.
MaxFullElems == 9
\* Largest dimension of an operand of a chained product.
MaxChainDim == 2
\* Largest element count of an operand of a chained product whose contents
\* are enumerated in full.
MaxFullOperand == 2

\* Sample of Type values held by matrices and bulk-assign sources.
Vals == {-1, 0, 100}
\* Sample of Type values held by vectors.
VecVals == {-128, -3, 0, 1, 2, 3, 12, 127}
\* Sample of Type values held by the matrices of a product.
MatVals == {-1, 100}
\* Non-zero scalars handed to operator/ and operator/=.
Scalars == {-2, -1, 1, 2, 3}

\* ------------------------------------------------------- Type arithmetic
\* Width of the element type int8_t.
TypeBits == 8
\* Rows and Cols of the matrices Translation is enabled for.
TransformDim == 4
\* Size of the vectors Cross is defined for.
CrossSize == 3

\* The value an int has once stored into a Type.
NarrowToType(x) ==
    ((x + 2^(TypeBits - 1)) % 2^TypeBits) - 2^(TypeBits - 1)

Abs(x) == IF x < 0 THEN -x ELSE x

\* The built-in '/' on int operands: the quotient truncated towards zero.
IntDiv(a, b) ==
    IF (a < 0) = (b < 0) THEN Abs(a) \div Abs(b) ELSE -(Abs(a) \div Abs(b))

\* std::vector<Type>::size() of a source sequence (a function over 0..n-1).
size(values) == Cardinality(DOMAIN values)

\* std::memcpy(dst, src, n * sizeof(Type)).
memcpy(dst, src, n) ==
    [i \in DOMAIN dst |-> IF i < n THEN src[i] ELSE dst[i]]

\* ------------------------------------------------------------------ state
VARIABLES
    obj,     \* which class the object under test instantiates
    Rows,    \* Matrix: template parameter Rows
    Cols,    \* Matrix: template parameter Cols
    data,    \* Matrix: Type data[Rows * Cols]
    Size,    \* Vector: template parameter Size
    vdata,   \* Vector: Type data[Size]
    pc,      \* the member function that returned (or threw) last
    arg,     \* its arguments
    ret,     \* its return value
    err,     \* the exception it threw, "none" if it returned
    old,     \* the object's elements when it was called
    reads    \* the indices of an argument's array it read unchecked

vars == <<obj, Rows, Cols, data, Size, vdata, pc, arg, ret, err, old, reads>>

Void == [kind |-> "void"]
NoArg == [kind |-> "none"]
NoData == [i \in {} |-> 0]

\* ----------------------------------------------------------------- Matrix
\* At(row, col): the flat index handed to At(index).
FlatIndexRowMajor(R, row, col) == row * R + col
FlatIndex(R, row, col) == col * R + row

\* At(index): the bounds check of the checked accessor passes.
InRange(R, C, index) == index < R * C

\* Matrix::Assign(Type diagonal): i counts the inner iterations, so the
\* iteration (row, col) writes data[row * Cols + col].
AssignDiagonalEverywhere(R, C, diagonal) ==
    [i \in 0..(R * C - 1) |-> diagonal]

AssignDiagonal(R, C, diagonal) ==
    [i \in 0..(R * C - 1) |->
        IF (i \div C) = (i % C) THEN diagonal ELSE 0]

\* Matrix::Assign(const std::vector<Type> &values): the source of the copy
\* is the member `data`, the object's own array.
AssignValues(R, C, d, values) ==
    IF size(values) # R * C
    THEN [err |-> "SizeMismatch", data |-> d]
    ELSE [err |-> "none", data |-> memcpy(d, d, R * C)]

\* Matrix::At(size_t index).
AtIndex(R, C, d, index) ==
    IF ~InRange(R, C, index)
    THEN [err |-> "IndexOutOfRange", ret |-> Void]
    ELSE [err |-> "none",
          ret |-> [kind |-> "ref", index |-> index, value |-> d[index]]]

\* Matrix::At(size_t row, size_t col).
At(R, C, d, row, col) == AtIndex(R, C, d, FlatIndex(R, row, col))

\* Matrix::Transpose(): the state of newMat (a Cols x Rows matrix) after k
\* iterations of the loop body, row outer and col inner.
RECURSIVE TransposeLoopSameIndex(_, _, _, _, _)
TransposeLoopSameIndex(R, C, d, newMat, k) ==
    IF k = 0 THEN [err |-> "none", data |-> newMat]
    ELSE LET prev == TransposeLoopSameIndex(R, C, d, newMat, k - 1)
             row == (k - 1) \div C
             col == (k - 1) % C
             src == FlatIndex(R, row, col)
             dst == FlatIndex(C, row, col)
         IN  IF prev.err # "none" THEN prev
             ELSE IF ~InRange(R, C, src) \/ ~InRange(C, R, dst)
             THEN [err |-> "IndexOutOfRange", data |-> prev.data]
             ELSE [err |-> "none", data |-> [prev.data EXCEPT ![dst] = d[src]]]

RECURSIVE TransposeLoop(_, _, _, _, _)
TransposeLoop(R, C, d, newMat, k) ==
    IF k = 0 THEN [err |-> "none", data |-> newMat]
    ELSE LET prev == TransposeLoop(R, C, d, newMat, k - 1)
             row == (k - 1) \div C
             col == (k - 1) % C
             src == FlatIndex(R, row, col)
             dst == FlatIndex(C, col, row)
         IN  IF prev.err # "none" THEN prev
             ELSE IF ~InRange(R, C, src) \/ ~InRange(C, R, dst)
             THEN [err |-> "IndexOutOfRange", data |-> prev.data]
             ELSE [err |-> "none", data |-> [prev.data EXCEPT ![dst] = d[src]]]

\* Matrix::Transpose() on a newMat that starts with the elements newMat0:
\* `newMat(Cols, Rows)` names no constructor the class declares, so nothing
\* is assumed about the elements newMat holds before the loop.
Transpose(R, C, d, newMat0) ==
    LET done == TransposeLoop(R, C, d, newMat0, R * C)
    IN  [err |-> done.err,
         ret |-> IF done.err = "none"
                 THEN [kind |-> "Matrix", Rows |-> C, Cols |-> R,
                       data |-> done.data]
                 ELSE Void]

\* Matrix::Scale(Type scalar) and ScaleInPlace: data[i] *= scalar.
Scale(d, scalar) == [i \in DOMAIN d |-> NarrowToType(d[i] * scalar)]

\* Matrix::operator/ and operator/=: Scale(1 / s), 1 / s computed on ints
\* and narrowed to the Type parameter of Scale.
Divide(d, s) == Scale(d, NarrowToType(IntDiv(1, s)))

\* Matrix::Multiply(const Matrix<Type, Cols, Cols2> &mat): every checked
\* access At(row, m) of this (R x C), At(m, col) of mat (C x C2) and
\* At(row, col) of newMat (R x C2) passes its bounds check; the first that
\* does not throws out of Multiply.
MultiplyInRange(R, C, C2) ==
    \A row \in 0..(R - 1), col \in 0..(C2 - 1) :
        /\ \A m \in 0..(C - 1) :
            /\ InRange(R, C, FlatIndex(R, row, m))
            /\ InRange(C, C2, FlatIndex(C, m, col))
        /\ InRange(R, C2, FlatIndex(R, row, col))

\* Matrix::Multiply(mat), inner loop: `dot` after k iterations for the
\* element (row, col): dot += this->At(row, m) * mat.At(m, col).
RECURSIVE DotRowMajorThis(_, _, _, _, _, _, _)
DotRowMajorThis(R, C, d, md, row, col, k) ==
    IF k = 0 THEN 0
    ELSE NarrowToType(DotRowMajorThis(R, C, d, md, row, col, k - 1)
            + d[row * C + (k - 1)] * md[FlatIndex(C, k - 1, col)])

DotOverwrite(R, C, d, md, row, col, k) ==
    IF k = 0 THEN 0
    ELSE NarrowToType(d[FlatIndex(R, row, k - 1)] * md[FlatIndex(C, k - 1, col)])

RECURSIVE Dot(_, _, _, _, _, _, _)
Dot(R, C, d, md, row, col, k) ==
    IF k = 0 THEN 0
    ELSE NarrowToType(Dot(R, C, d, md, row, col, k - 1)
            + d[FlatIndex(R, row, k - 1)] * md[FlatIndex(C, k - 1, col)])

\* Matrix::Multiply(mat), outer loops: the elements of newMat (R x C2) after
\* k iterations of the body of the col loop, row outer and col inner.
RECURSIVE MultiplyLoop(_, _, _, _, _, _, _)
MultiplyLoop(R, C, d, C2, md, newMat, k) ==
    IF k = 0 THEN newMat
    ELSE [MultiplyLoop(R, C, d, C2, md, newMat, k - 1) EXCEPT
            ![FlatIndex(R, (k - 1) \div C2, (k - 1) % C2)] =
                Dot(R, C, d, md, (k - 1) \div C2, (k - 1) % C2, C)]

\* Matrix::Multiply(mat) and operator*(mat), newMat default-constructed with
\* the elements newMat0.
Multiply(R, C, d, C2, md, newMat0) ==
    IF ~MultiplyInRange(R, C, C2)
    THEN [err |-> "IndexOutOfRange", ret |-> Void]
    ELSE [err |-> "none",
          ret |-> [kind |-> "Matrix", Rows |-> R, Cols |-> C2,
                   data |-> MultiplyLoop(R, C, d, C2, md, newMat0, R * C2)]]

\* Matrix::Multiply(const Vector<Type, Rows> &vec), inner loop: `dot` after k
\* iterations for the element row: dot += this->At(row, col) * vec.data[col].
\* vec.data[col] is an unchecked read of an array of Rows elements: mem is
\* vec.data followed by what the storage past its end holds.
RECURSIVE DotVector(_, _, _, _, _)
DotVector(R, d, mem, row, k) ==
    IF k = 0 THEN 0
    ELSE NarrowToType(DotVector(R, d, mem, row, k - 1)
            + d[FlatIndex(R, row, k - 1)] * mem[k - 1])

\* Matrix::Multiply(vec) and operator*(vec): newVec.data[row] = dot for every
\* row; `reads` are the indices of vec.data the call read.
MultiplyVector(R, C, d, vec, past) ==
    LET mem == [i \in 0..(R + size(past) - 1) |->
                   IF i < R THEN vec[i] ELSE past[i - R]]
    IN  IF \E row \in 0..(R - 1), col \in 0..(C - 1) :
               ~InRange(R, C, FlatIndex(R, row, col))
        THEN [err |-> "IndexOutOfRange", ret |-> Void, reads |-> 0..(C - 1)]
        ELSE [err |-> "none",
              ret |-> [kind |-> "Vector", Size |-> R,
                       data |-> [row \in 0..(R - 1) |->
                                    DotVector(R, d, mem, row, C)]],
              reads |-> 0..(C - 1)]

\* Matrix::MultiplyInPlace(mat): every At(row, m) of this and At(m, col) of
\* mat, both Rows x Cols, is in range.
MultiplyInPlaceInRange(R, C) ==
    \A row \in 0..(R - 1), col \in 0..(C - 1), m \in 0..(C - 1) :
        /\ InRange(R, C, FlatIndex(R, row, m))
        /\ InRange(R, C, FlatIndex(R, m, col))

\* Matrix::MultiplyInPlace(mat), inner loop: `dot` after k iterations,
\* dot += this->At(row, m) * mat.At(m, col).
RECURSIVE DotInPlace(_, _, _, _, _, _)
DotInPlace(R, d, md, row, col, k) ==
    IF k = 0 THEN 0
    ELSE NarrowToType(DotInPlace(R, d, md, row, col, k - 1)
            + d[FlatIndex(R, row, k - 1)] * md[FlatIndex(R, k - 1, col)])

\* Matrix::MultiplyInPlace(mat), outer loops: the elements of newMat after k
\* iterations of the body of the col loop. this->data is d and mat.data is
\* md (d itself when mat is this object); neither is written by the loops.
RECURSIVE MultiplyInPlaceLoopDirect(_, _, _, _, _, _, _)
MultiplyInPlaceLoopDirect(R, C, d, md, aliased, newMat, k) ==
    IF k = 0 THEN d
    ELSE LET prev == MultiplyInPlaceLoopDirect(R, C, d, md, aliased,
                                               newMat, k - 1)
         IN  [prev EXCEPT
                ![FlatIndex(R, (k - 1) \div C, (k - 1) % C)] =
                    DotInPlace(R, prev, IF aliased THEN prev ELSE md,
                               (k - 1) \div C, (k - 1) % C, C)]

RECURSIVE MultiplyInPlaceLoop(_, _, _, _, _, _, _)
MultiplyInPlaceLoop(R, C, d, md, aliased, newMat, k) ==
    IF k = 0 THEN newMat
    ELSE [MultiplyInPlaceLoop(R, C, d, md, aliased, newMat, k - 1) EXCEPT
            ![FlatIndex(R, (k - 1) \div C, (k - 1) % C)] =
                DotInPlace(R, d, IF aliased THEN d ELSE md,
                           (k - 1) \div C, (k - 1) % C, C)]

\* Matrix::MultiplyInPlace(mat) and operator*=: the loops, then
\* *this = newMat. newMat starts with the elements newMat0.
MultiplyInPlace(R, C, d, md, aliased, newMat0) ==
    IF ~MultiplyInPlaceInRange(R, C)
    THEN [err |-> "IndexOutOfRange", data |-> d]
    ELSE [err |-> "none",
          data |-> MultiplyInPlaceLoop(R, C, d, md, aliased, newMat0, R * C)]

\* Matrix::Identity(): Matrix<Type, Rows, Cols>(1), the diagonal constructor.
Identity(R, C) == AssignDiagonal(R, C, 1)

\* Matrix::Translation(delta): the initializer list handed to the
\* constructor from a std::vector, delta a 3-vector.
TranslationValues(delta) ==
    <<1, 0, 0, 0,
      0, 1, 0, 0,
      0, 0, 1, 0,
      delta[0], delta[1], delta[2], 1>>

\* The std::vector built from an initializer list, indexed from 0.
Vector0(list) == [i \in 0..(Len(list) - 1) |-> list[i + 1]]

\* Matrix::Translation(delta): the constructor Matrix(values) runs
\* Assign(values) on the uninitialized elements d of the new 4x4 matrix.
Translation(d, delta) ==
    AssignValues(TransformDim, TransformDim, d,
                 Vector0(TranslationValues(delta)))

\* ----------------------------------------------------------------- Vector
\* Vector::Magnitude(): the Type accumulator `sum` after k iterations.
RECURSIVE MagnitudeSum(_, _)
MagnitudeSum(d, k) ==
    IF k = 0 THEN 0
    ELSE NarrowToType(MagnitudeSum(d, k - 1) + d[k - 1] * d[k - 1])

\* Vector::Magnitude(): sqrt(sum), a NaN when the radicand is negative.
Magnitude(d, N) ==
    LET sum == MagnitudeSum(d, N)
    IN  [kind |-> "double", radicand |-> sum, nan |-> sum < 0]

\* Vector::Scale(Type scalar) and ScaleInPlace.
VectorScale(d, scalar) == [i \in DOMAIN d |-> NarrowToType(d[i] * scalar)]

\* Vector::operator/ and operator/=: Scale(1 / s).
VectorDivide(d, s) == VectorScale(d, NarrowToType(IntDiv(1, s)))

\* Vector::Assign(const std::vector<Type> &values): the size check, then
\* memcpy from &values[0].
VectorAssignValuesSelfCopy(N, d, values) ==
    IF size(values) # N
    THEN [err |-> "SizeMismatch", data |-> d]
    ELSE [err |-> "none", data |-> memcpy(d, d, N)]

VectorAssignValuesCopyFirst(N, d, values) ==
    IF size(values) # N
    THEN [err |-> "SizeMismatch", data |-> memcpy(d, values, size(values))]
    ELSE [err |-> "none", data |-> memcpy(d, values, N)]

VectorAssignValues(N, d, values) ==
    IF size(values) # N
    THEN [err |-> "SizeMismatch", data |-> d]
    ELSE [err |-> "none", data |-> memcpy(d, values, N)]

\* Vector::At(size_t index): the bounds check passes.
VectorInRangeStrict(N, index) == index < N - 1
VectorInRange(N, index) == index < N

\* Vector::At(size_t index).
VectorAtIndex(N, d, index) ==
    IF ~VectorInRange(N, index)
    THEN [err |-> "IndexOutOfRange", ret |-> Void]
    ELSE [err |-> "none",
          ret |-> [kind |-> "ref", index |-> index, value |-> d[index]]]

\* Vector::Cross(const Vector<Type, 3> &b): the three stores into the
\* default-constructed `cross`, whose elements start as cross0.
CrossRepeatedIndex(a, b, cross0) ==
    [cross0 EXCEPT
        ![0] = NarrowToType(a[1] * b[2] - a[2] * b[1]),
        ![1] = NarrowToType(a[2] * b[0] - a[0] * b[2]),
        ![2] = NarrowToType(a[0] * b[1] - a[1] * b[1])]

Cross(a, b, cross0) ==
    [cross0 EXCEPT
        ![0] = NarrowToType(a[1] * b[2] - a[2] * b[1]),
        ![1] = NarrowToType(a[2] * b[0] - a[0] * b[2]),
        ![2] = NarrowToType(a[0] * b[1] - a[1] * b[0])]

\* --------------------------------------------------------- input samples
\* Contents an array can hold: every array over the sample.
Arrays(n, S) == [0..(n - 1) -> S]

\* The array start, start+step, ... of n elements.
Ramp(n, start, step) == [i \in 0..(n - 1) |-> NarrowToType(start + i * step)]

\* What an object that was never written holds: one fill value throughout.
Fills(n) == {Ramp(n, g, 0) : g \in Vals}

\* A fill or the ramp 1, 2, ..., n, with at most one element replaced.
OneOff(n) ==
    {Ramp(n, 1, 1)} \cup
    {[f EXCEPT ![i] = v] :
        f \in Fills(n) \cup {Ramp(n, 1, 1)}, i \in 0..(n - 1), v \in Vals}

\* Contents of a square matrix of n elements.
SquareData(n) ==
    OneOff(n) \cup (IF n <= MaxFullElems THEN Arrays(n, MatVals) ELSE {})

\* Source sequences of a bulk assign to n elements: one too short, exact,
\* one too long.
Sources(n) ==
    {Ramp(len, s, step) :
        len \in {l \in {n - 1, n, n + 1} : l >= 0}, s \in Vals, step \in {0, 1}}

\* ----------------------------------------------------- one-object model
\* A default-constructed matrix (Matrix() = default performs no
\* initialization: any contents), among them the contents 1, 2, ..., Rows*Cols.
InitMatrix ==
    /\ obj = "Matrix"
    /\ Rows \in 1..MaxElems
    /\ Cols \in 1..MaxElems
    /\ Rows * Cols <= MaxElems
    /\ data \in Arrays(Rows * Cols, Vals) \cup {Ramp(Rows * Cols, 1, 1)}
    /\ Size = 0
    /\ vdata = NoData
    /\ pc = "Matrix"
    /\ arg = NoArg
    /\ ret = Void
    /\ err = "none"
    /\ old = data
    /\ reads = {}

InitVector ==
    /\ obj = "Vector"
    /\ Rows = 0
    /\ Cols = 0
    /\ data = NoData
    /\ Size \in 1..MaxSize
    /\ vdata \in Arrays(Size, VecVals)
    /\ pc = "Vector"
    /\ arg = NoArg
    /\ ret = Void
    /\ err = "none"
    /\ old = vdata
    /\ reads = {}

Init == InitMatrix \/ InitVector

Shape == <<obj, Rows, Cols, Size>>

\* Each behaviour constructs one object and calls one member function on it:
\* Init ranges over the contents the object holds at the call.
Constructed == pc \in {"Matrix", "Vector"}

MatrixAssignDiagonal ==
    /\ Constructed
    /\ obj = "Matrix"
    /\ \E diagonal \in Vals \cup {1} :
        /\ data' = AssignDiagonal(Rows, Cols, diagonal)
        /\ arg' = [diagonal |-> diagonal]
    /\ pc' = "Matrix::Assign(diagonal)"
    /\ ret' = Void
    /\ err' = "none"
    /\ old' = data
    /\ reads' = {}
    /\ UNCHANGED <<Shape, vdata>>

MatrixAssignValues ==
    /\ Constructed
    /\ obj = "Matrix"
    /\ \E values \in Sources(Rows * Cols) :
        LET r == AssignValues(Rows, Cols, data, values)
        IN  /\ data' = r.data
            /\ err' = r.err
            /\ arg' = [values |-> values]
    /\ pc' = "Matrix::Assign(values)"
    /\ ret' = Void
    /\ old' = data
    /\ reads' = {}
    /\ UNCHANGED <<Shape, vdata>>

MatrixAtIndex ==
    /\ Constructed
    /\ obj = "Matrix"
    /\ \E index \in 0..(Rows * Cols + 1) :
        LET r == AtIndex(Rows, Cols, data, index)
        IN  /\ ret' = r.ret
            /\ err' = r.err
            /\ arg' = [index |-> index]
    /\ pc' = "Matrix::At(index)"
    /\ old' = data
    /\ reads' = {}
    /\ UNCHANGED <<Shape, data, vdata>>

MatrixAt ==
    /\ Constructed
    /\ obj = "Matrix"
    /\ \E row \in 0..(Rows + 1), col \in 0..(Cols + 1) :
        LET r == At(Rows, Cols, data, row, col)
        IN  /\ ret' = r.ret
            /\ err' = r.err
            /\ arg' = [row |-> row, col |-> col]
    /\ pc' = "Matrix::At(row,col)"
    /\ old' = data
    /\ reads' = {}
    /\ UNCHANGED <<Shape, data, vdata>>

MatrixTranspose ==
    /\ Constructed
    /\ obj = "Matrix"
    /\ \E newMat0 \in Fills(Rows * Cols) :
        LET r == Transpose(Rows, Cols, data, newMat0)
        IN  /\ ret' = r.ret
            /\ err' = r.err
    /\ arg' = NoArg
    /\ pc' = "Matrix::Transpose"
    /\ old' = data
    /\ reads' = {}
    /\ UNCHANGED <<Shape, data, vdata>>

MatrixDivide ==
    /\ Constructed
    /\ obj = "Matrix"
    /\ \E s \in Scalars :
        /\ ret' = [kind |-> "Matrix", Rows |-> Rows, Cols |-> Cols,
                   data |-> Divide(data, s)]
        /\ arg' = [s |-> s]
    /\ pc' = "Matrix::operator/"
    /\ err' = "none"
    /\ old' = data
    /\ reads' = {}
    /\ UNCHANGED <<Shape, data, vdata>>

MatrixDivideInPlace ==
    /\ Constructed
    /\ obj = "Matrix"
    /\ \E s \in Scalars :
        /\ data' = Divide(data, s)
        /\ arg' = [s |-> s]
    /\ pc' = "Matrix::operator/="
    /\ ret' = Void
    /\ err' = "none"
    /\ old' = data
    /\ reads' = {}
    /\ UNCHANGED <<Shape, vdata>>

VectorMagnitude ==
    /\ Constructed
    /\ obj = "Vector"
    /\ ret' = Magnitude(vdata, Size)
    /\ arg' = NoArg
    /\ pc' = "Vector::Magnitude"
    /\ err' = "none"
    /\ old' = vdata
    /\ reads' = {}
    /\ UNCHANGED <<Shape, data, vdata>>

VectorOperatorDivide ==
    /\ Constructed
    /\ obj = "Vector"
    /\ \E s \in Scalars :
        /\ ret' = [kind |-> "Vector", Size |-> Size,
                   data |-> VectorDivide(vdata, s)]
        /\ arg' = [s |-> s]
    /\ pc' = "Vector::operator/"
    /\ err' = "none"
    /\ old' = vdata
    /\ reads' = {}
    /\ UNCHANGED <<Shape, data, vdata>>

VectorDivideInPlace ==
    /\ Constructed
    /\ obj = "Vector"
    /\ \E s \in Scalars :
        /\ vdata' = VectorDivide(vdata, s)
        /\ arg' = [s |-> s]
    /\ pc' = "Vector::operator/="
    /\ ret' = Void
    /\ err' = "none"
    /\ old' = vdata
    /\ reads' = {}
    /\ UNCHANGED <<Shape, data>>

VectorAssign ==
    /\ Constructed
    /\ obj = "Vector"
    /\ \E values \in Sources(Size) :
        LET r == VectorAssignValues(Size, vdata, values)
        IN  /\ vdata' = r.data
            /\ err' = r.err
            /\ arg' = [values |-> values]
    /\ pc' = "Vector::Assign(values)"
    /\ ret' = Void
    /\ old' = vdata
    /\ reads' = {}
    /\ UNCHANGED <<Shape, data>>

VectorAt ==
    /\ Constructed
    /\ obj = "Vector"
    /\ \E index \in 0..(Size + 1) :
        LET r == VectorAtIndex(Size, vdata, index)
        IN  /\ ret' = r.ret
            /\ err' = r.err
            /\ arg' = [index |-> index]
    /\ pc' = "Vector::At(index)"
    /\ old' = vdata
    /\ reads' = {}
    /\ UNCHANGED <<Shape, data, vdata>>

Next ==
    \/ MatrixAssignDiagonal
    \/ MatrixAssignValues
    \/ MatrixAtIndex
    \/ MatrixAt
    \/ MatrixTranspose
    \/ MatrixDivide
    \/ MatrixDivideInPlace
    \/ VectorMagnitude
    \/ VectorOperatorDivide
    \/ VectorDivideInPlace
    \/ VectorAssign
    \/ VectorAt

Spec == Init /\ [][Next]_vars

\* -------------------------------------------------------- product model
\* A matrix and one product with it: this * mat or this * vec.
InitProduct ==
    /\ obj = "Matrix"
    /\ Rows \in 1..MaxElems
    /\ Cols \in 1..MaxElems
    /\ Rows * Cols <= MaxElems
    /\ data \in Arrays(Rows * Cols, MatVals) \cup {Ramp(Rows * Cols, 1, 1)}
    /\ Size = 0
    /\ vdata = NoData
    /\ pc = "Matrix"
    /\ arg = NoArg
    /\ ret = Void
    /\ err = "none"
    /\ old = data
    /\ reads = {}

MatrixMultiply ==
    /\ Constructed
    /\ obj = "Matrix"
    /\ \E Cols2 \in 1..MaxElems :
        /\ Cols * Cols2 <= MaxElems
        /\ Rows * Cols2 <= MaxElems
        /\ \E mat \in Arrays(Cols * Cols2, MatVals)
                      \cup {Ramp(Cols * Cols2, 0, 1)},
              newMat0 \in Fills(Rows * Cols2) :
            LET r == Multiply(Rows, Cols, data, Cols2, mat, newMat0)
            IN  /\ ret' = r.ret
                /\ err' = r.err
                /\ arg' = [Cols2 |-> Cols2, mat |-> mat]
    /\ pc' = "Matrix::Multiply(mat)"
    /\ old' = data
    /\ reads' = {}
    /\ UNCHANGED <<Shape, data, vdata>>

MatrixMultiplyVector ==
    /\ Constructed
    /\ obj = "Matrix"
    /\ \E vec \in Arrays(Rows, Vals),
          past \in Fills(IF Cols > Rows THEN Cols - Rows ELSE 0) :
        LET r == MultiplyVector(Rows, Cols, data, vec, past)
        IN  /\ ret' = r.ret
            /\ err' = r.err
            /\ reads' = r.reads
            /\ arg' = [vec |-> vec]
    /\ pc' = "Matrix::Multiply(vec)"
    /\ old' = data
    /\ UNCHANGED <<Shape, data, vdata>>

NextProduct ==
    \/ MatrixMultiply
    \/ MatrixMultiplyVector

SpecProduct == InitProduct /\ [][NextProduct]_vars

\* ------------------------------------------- claims of the one-object model
\* C1: after Matrix::Assign(values) with size(values) = Rows*Cols the matrix
\* holds the sequence, At(i) = values[i] for every flat index i, whatever it
\* held before; any other length raises SizeMismatch.
C1_AssignHoldsSequence ==
    pc = "Matrix::Assign(values)" =>
        IF size(arg.values) = Rows * Cols
        THEN /\ err = "none"
             /\ \A i \in 0..(Rows * Cols - 1) : data[i] = arg.values[i]
        ELSE err = "SizeMismatch"

\* C2: after Matrix::Assign(diagonal) the element at the column-major flat
\* index c*Rows+r is diagonal when r = c and 0 otherwise, square or not.
C2_DiagonalColumnMajor ==
    pc = "Matrix::Assign(diagonal)" =>
        \A r \in 0..(Rows - 1), c \in 0..(Cols - 1) :
            data[c * Rows + r] = (IF r = c THEN arg.diagonal ELSE 0)

\* C3 as stated: Matrix::At(row, col) raises IndexOutOfRange whenever
\* row >= Rows or col >= Cols, and returns the element at col*Rows+row
\* otherwise.
C3_RowOrColOutOfRangeRaises ==
    pc = "Matrix::At(row,col)" =>
        IF arg.row >= Rows \/ arg.col >= Cols
        THEN err = "IndexOutOfRange"
        ELSE /\ err = "none"
             /\ ret.index = arg.col * Rows + arg.row
             /\ ret.value = data[arg.col * Rows + arg.row]

\* C3 as amended: Matrix::At(row, col) raises IndexOutOfRange exactly when the
\* flat index col*Rows+row is >= Rows*Cols (so always when col >= Cols), and
\* returns the element at col*Rows+row otherwise, also when row >= Rows.
C3_FlatIndexOutOfRangeRaises ==
    pc = "Matrix::At(row,col)" =>
        /\ IF arg.col * Rows + arg.row >= Rows * Cols
           THEN err = "IndexOutOfRange"
           ELSE /\ err = "none"
                /\ ret.index = arg.col * Rows + arg.row
                /\ ret.value = data[arg.col * Rows + arg.row]
        /\ arg.col >= Cols => err = "IndexOutOfRange"

\* C3 witness: a row past the last one was read without an exception.
C3_Witness ==
    /\ pc = "Matrix::At(row,col)"
    /\ arg.row >= Rows
    /\ err = "none"
    /\ Rows > 1

\* C8: m.Transpose() is the Cols x Rows matrix with result(c, r) = m(r, c)
\* for all r, c, every element of the result written (whatever the result
\* object held when the loop began), so that transposing twice gives m back;
\* the 2x2 matrix with data 1,2,3,4 transposes to 1,3,2,4.
C8_TransposeSwapsRowsAndCols ==
    pc = "Matrix::Transpose" =>
        /\ err = "none"
        /\ ret.Rows = Cols
        /\ ret.Cols = Rows
        /\ DOMAIN ret.data = 0..(Rows * Cols - 1)
        /\ \A r \in 0..(Rows - 1), c \in 0..(Cols - 1) :
            ret.data[r * Cols + c] = data[c * Rows + r]
        /\ \A g \in Fills(Rows * Cols) :
            LET back == Transpose(ret.Rows, ret.Cols, ret.data, g)
            IN  /\ back.err = "none"
                /\ back.ret.Rows = Rows
                /\ back.ret.Cols = Cols
                /\ back.ret.data = data
        /\ (Rows = 2 /\ Cols = 2 /\ data = Ramp(4, 1, 1)) =>
            ret.data = (0 :> 1 @@ 1 :> 3 @@ 2 :> 2 @@ 3 :> 4)

\* C8 witness: a non-square matrix of distinct elements was transposed.
C8_Witness ==
    /\ pc = "Matrix::Transpose"
    /\ Rows = 2
    /\ Cols = 3
    /\ data = Ramp(6, 1, 1)
    /\ ret.data = (0 :> 1 @@ 1 :> 3 @@ 2 :> 5 @@ 3 :> 2 @@ 4 :> 4 @@ 5 :> 6)

\* C9: for a non-zero scalar s, operator/ returns a container whose every
\* element is the original element divided by s, and operator/= leaves every
\* element of the object divided by s.
C9_DivideDividesEachElement ==
    /\ pc \in {"Matrix::operator/", "Vector::operator/"} =>
        \A i \in DOMAIN old :
            ret.data[i] = NarrowToType(IntDiv(old[i], arg.s))
    /\ pc = "Matrix::operator/=" =>
        \A i \in DOMAIN old : data[i] = NarrowToType(IntDiv(old[i], arg.s))
    /\ pc = "Vector::operator/=" =>
        \A i \in DOMAIN old : vdata[i] = NarrowToType(IntDiv(old[i], arg.s))

\* The mathematical sum of the squares of the first k elements.
RECURSIVE SumOfSquares(_, _)
SumOfSquares(d, k) ==
    IF k = 0 THEN 0 ELSE SumOfSquares(d, k - 1) + d[k - 1] * d[k - 1]

\* C10: the value Vector::Magnitude() takes the square root of is the true
\* sum of the squares of the elements, with no wraparound to Type's width.
C10_MagnitudeOfTrueSum ==
    pc = "Vector::Magnitude" =>
        /\ ret.radicand = SumOfSquares(vdata, Size)
        /\ ~ret.nan

\* The mathematical sum f[0] + ... + f[n-1].
RECURSIVE Sum(_, _)
Sum(f, n) == IF n = 0 THEN 0 ELSE Sum(f, n - 1) + f[n - 1]

\* C4: Matrix::Multiply(vec) is the product of the matrix with a column
\* vector, result[row] = sum over c < Cols of M(row, c) * vec[c] (in Type's
\* arithmetic), and every index it reads the vector at is inside the
\* vector's own bounds.
C4_MultiplyVectorReadsInBounds ==
    pc = "Matrix::Multiply(vec)" =>
        /\ err = "none"
        /\ \A i \in reads : i < size(arg.vec)
        /\ \A row \in 0..(Rows - 1) :
            ret.data[row] =
                NarrowToType(Sum([c \in 0..(Cols - 1) |->
                    data[c * Rows + row] * arg.vec[c]], Cols))

\* C6: A.Multiply(B) is the Rows x Cols2 matrix with result(row, col) = sum
\* over m < Cols of A(row, m) * B(m, col) (in Type's arithmetic), and no
\* checked access inside Multiply raises IndexOutOfRange.
C6_MultiplyIsMatrixProduct ==
    pc = "Matrix::Multiply(mat)" =>
        /\ err = "none"
        /\ ret.Rows = Rows
        /\ ret.Cols = arg.Cols2
        /\ DOMAIN ret.data = 0..(Rows * arg.Cols2 - 1)
        /\ \A row \in 0..(Rows - 1), col \in 0..(arg.Cols2 - 1) :
            ret.data[col * Rows + row] =
                NarrowToType(Sum([m \in 0..(Cols - 1) |->
                    data[m * Rows + row] * arg.mat[col * Cols + m]], Cols))

\* C6 witness: the 2x3 matrix 1..6 times the 3x2 matrix 0..5.
C6_Witness ==
    /\ pc = "Matrix::Multiply(mat)"
    /\ Rows = 2
    /\ Cols = 3
    /\ arg.Cols2 = 2
    /\ data = Ramp(6, 1, 1)
    /\ arg.mat = Ramp(6, 0, 1)
    /\ ret.data = (0 :> 13 @@ 1 :> 16 @@ 2 :> 40 @@ 3 :> 52)

\* --------------------------------------------------------- square model
\* A square matrix m and one product of it with Identity().
InitSquare ==
    /\ obj = "Matrix"
    /\ Rows \in 1..MaxSquare
    /\ Cols = Rows
    /\ data \in SquareData(Rows * Cols)
    /\ Size = 0
    /\ vdata = NoData
    /\ pc = "Matrix"
    /\ arg = NoArg
    /\ ret = Void
    /\ err = "none"
    /\ old = data
    /\ reads = {}

IdentityTimesMatrix ==
    /\ Constructed
    /\ \E newMat0 \in Fills(Rows * Cols) :
        LET r == Multiply(Rows, Cols, Identity(Rows, Cols), Cols, data, newMat0)
        IN  /\ ret' = r.ret
            /\ err' = r.err
    /\ arg' = [identity |-> Identity(Rows, Cols)]
    /\ pc' = "Identity*m"
    /\ old' = data
    /\ reads' = {}
    /\ UNCHANGED <<Shape, data, vdata>>

MatrixTimesIdentity ==
    /\ Constructed
    /\ \E newMat0 \in Fills(Rows * Cols) :
        LET r == Multiply(Rows, Cols, data, Cols, Identity(Rows, Cols), newMat0)
        IN  /\ ret' = r.ret
            /\ err' = r.err
    /\ arg' = [identity |-> Identity(Rows, Cols)]
    /\ pc' = "m*Identity"
    /\ old' = data
    /\ reads' = {}
    /\ UNCHANGED <<Shape, data, vdata>>

NextSquare ==
    \/ IdentityTimesMatrix
    \/ MatrixTimesIdentity

SpecSquare == InitSquare /\ [][NextSquare]_vars

\* C7: for every square matrix m, Identity() * m = m and m * Identity() = m.
C7_IdentityIsNeutral ==
    pc \in {"Identity*m", "m*Identity"} =>
        /\ err = "none"
        /\ ret.Rows = Rows
        /\ ret.Cols = Cols
        /\ ret.data = data

\* C7 witness: the 3x3 matrix 1..9 was multiplied by Identity() on the right.
C7_Witness ==
    /\ pc = "m*Identity"
    /\ Rows = 3
    /\ data = Ramp(9, 1, 1)
    /\ arg.identity = (0 :> 1 @@ 1 :> 0 @@ 2 :> 0 @@ 3 :> 0 @@ 4 :> 1
                       @@ 5 :> 0 @@ 6 :> 0 @@ 7 :> 0 @@ 8 :> 1)
    /\ ret.data = data

\* ------------------------------------------------------ transform model
\* The storage Translation constructs its result in, not yet initialized.
InitTransform ==
    /\ obj = "Matrix"
    /\ Rows = TransformDim
    /\ Cols = TransformDim
    /\ data \in Fills(Rows * Cols) \cup {Ramp(Rows * Cols, 1, 1)}
    /\ Size = 0
    /\ vdata = NoData
    /\ pc = "Matrix"
    /\ arg = NoArg
    /\ ret = Void
    /\ err = "none"
    /\ old = data
    /\ reads = {}

MatrixTranslation ==
    /\ Constructed
    /\ \E delta \in Arrays(TransformDim - 1, Vals) :
        LET r == Translation(data, delta)
        IN  /\ data' = r.data
            /\ err' = r.err
            /\ arg' = [delta |-> delta]
    /\ pc' = "Matrix::Translation"
    /\ ret' = Void
    /\ old' = data
    /\ reads' = {}
    /\ UNCHANGED <<Shape, vdata>>

\* Translation(delta) * Vector<Type, 4>({x, y, z, 1}).
TranslationTimesVector ==
    /\ pc = "Matrix::Translation"
    /\ err = "none"
    /\ \E point \in Arrays(TransformDim - 1, Vals) :
        LET vec == [i \in 0..(TransformDim - 1) |->
                       IF i < TransformDim - 1 THEN point[i] ELSE 1]
            r == MultiplyVector(Rows, Cols, data, vec, NoData)
        IN  /\ ret' = r.ret
            /\ err' = r.err
            /\ reads' = r.reads
            /\ arg' = [delta |-> arg.delta, vec |-> vec]
    /\ pc' = "Translation*vec"
    /\ old' = data
    /\ UNCHANGED <<Shape, data, vdata>>

NextTransform ==
    \/ MatrixTranslation
    \/ TranslationTimesVector

SpecTransform == InitTransform /\ [][NextTransform]_vars

\* C5: Translation(d) is the identity matrix with d[0], d[1], d[2] at the
\* flat indices 12, 13, 14, so that Translation(d) * (x, y, z, 1) =
\* (x + d[0], y + d[1], z + d[2], 1); Translation({1,2,3}) * {0,0,0,1} =
\* {1,2,3,1}.
C5_TranslationTranslates ==
    /\ pc = "Matrix::Translation" =>
        /\ err = "none"
        /\ \A i \in 0..15 :
            data[i] = (IF i \in {0, 5, 10, 15} THEN 1
                       ELSE IF i \in {12, 13, 14} THEN arg.delta[i - 12]
                       ELSE 0)
    /\ pc = "Translation*vec" =>
        /\ err = "none"
        /\ \A i \in 0..2 : ret.data[i] = NarrowToType(arg.vec[i] + arg.delta[i])
        /\ ret.data[3] = 1

\* ------------------------------------- claims of the checked Vector members
\* C11: Vector::Assign(values) raises SizeMismatch if and only if the length
\* of values differs from Size; when it is Size the call succeeds and
\* afterwards At(i) = values[i] for every i < Size.
C11_VectorAssignChecksSize ==
    pc = "Vector::Assign(values)" =>
        /\ (err = "SizeMismatch") <=> (size(arg.values) # Size)
        /\ err \in {"none", "SizeMismatch"}
        /\ err = "none" =>
            \A i \in 0..(Size - 1) :
                /\ vdata[i] = arg.values[i]
                /\ VectorAtIndex(Size, vdata, i).err = "none"
                /\ VectorAtIndex(Size, vdata, i).ret.value = arg.values[i]

\* C11 witness: a sequence of the right length, different from what the
\* vector held, was assigned.
C11_Witness ==
    /\ pc = "Vector::Assign(values)"
    /\ Size = 3
    /\ err = "none"
    /\ arg.values = Ramp(3, 100, 1)
    /\ old = Ramp(3, 12, 0)
    /\ vdata = arg.values

\* C12: Vector::At(i) raises IndexOutOfRange if and only if i >= Size (At(Size)
\* raises, At(Size-1) succeeds), and otherwise returns the i-th element.
C12_VectorAtChecksIndex ==
    pc = "Vector::At(index)" =>
        /\ (err = "IndexOutOfRange") <=> (arg.index >= Size)
        /\ err \in {"none", "IndexOutOfRange"}
        /\ arg.index = Size => err = "IndexOutOfRange"
        /\ arg.index = Size - 1 => err = "none"
        /\ err = "none" =>
            /\ ret.index = arg.index
            /\ ret.value = vdata[arg.index]

\* C12 witness: the last element of a vector was read.
C12_Witness ==
    /\ pc = "Vector::At(index)"
    /\ Size = 3
    /\ arg.index = Size - 1
    /\ vdata = (0 :> 1 @@ 1 :> 2 @@ 2 :> 3)
    /\ err = "none"
    /\ ret.value = 3

\* C16: whenever Vector::Assign(values), Matrix::Assign(values), Vector::At
\* or Matrix::At fails, every element of the container is what it was before
\* the call.
C16_FailedCallLeavesElements ==
    /\ (pc \in {"Vector::Assign(values)", "Vector::At(index)"} /\ err # "none")
        => vdata = old
    /\ (pc \in {"Matrix::Assign(values)", "Matrix::At(index)",
                "Matrix::At(row,col)"} /\ err # "none")
        => data = old

\* C16 witness: a bulk assign of a sequence one element short, whose elements
\* differ from the vector's, failed.
C16_Witness ==
    /\ pc = "Vector::Assign(values)"
    /\ err = "SizeMismatch"
    /\ Size = 3
    /\ arg.values = Ramp(2, 100, 1)
    /\ old = Ramp(3, 12, 0)
    /\ vdata = old

\* ------------------------------------------------------ chained products
\* Operands of a chained product: fills, ramps, and every array over MatVals
\* when the operand is small.
ChainData(n) ==
    Fills(n) \cup {Ramp(n, 100, 1), Ramp(n, -3, 7)}
    \cup (IF n <= MaxFullOperand THEN Arrays(n, MatVals) ELSE {})

InitChain ==
    /\ obj = "Matrix"
    /\ Rows \in 1..MaxChainDim
    /\ Cols \in 1..MaxChainDim
    /\ data \in ChainData(Rows * Cols)
    /\ Size = 0
    /\ vdata = NoData
    /\ pc = "Matrix"
    /\ arg = NoArg
    /\ ret = Void
    /\ err = "none"
    /\ old = data
    /\ reads = {}

\* (a * b) * c for this matrix a (Rows x Cols), b (Cols x Cols2) and
\* c (Cols2 x Cols3); each operator* returns a newMat that starts with
\* the arbitrary element g throughout.
MatrixMultiplyLeftFirst ==
    /\ Constructed
    /\ obj = "Matrix"
    /\ \E Cols2 \in 1..MaxChainDim, Cols3 \in 1..MaxChainDim :
        \E b \in ChainData(Cols * Cols2), c \in ChainData(Cols2 * Cols3),
           g \in Vals :
            LET ab == Multiply(Rows, Cols, data, Cols2, b,
                               Ramp(Rows * Cols2, g, 0))
                r  == IF ab.err # "none" THEN ab
                      ELSE Multiply(Rows, Cols2, ab.ret.data, Cols3, c,
                                    Ramp(Rows * Cols3, g, 0))
            IN  /\ ret' = [left |-> r.ret, ab |-> ab.ret]
                /\ err' = r.err
                /\ arg' = [Cols2 |-> Cols2, Cols3 |-> Cols3, b |-> b, c |-> c]
    /\ pc' = "(a*b)*c"
    /\ old' = data
    /\ reads' = {}
    /\ UNCHANGED <<Shape, data, vdata>>

\* a * (b * c) for the same three operands.
MatrixMultiplyRightFirst ==
    /\ pc = "(a*b)*c"
    /\ err = "none"
    /\ \E g \in Vals :
        LET bc == Multiply(Cols, arg.Cols2, arg.b, arg.Cols3, arg.c,
                           Ramp(Cols * arg.Cols3, g, 0))
            r  == IF bc.err # "none" THEN bc
                  ELSE Multiply(Rows, Cols, data, arg.Cols3, bc.ret.data,
                                Ramp(Rows * arg.Cols3, g, 0))
        IN  /\ ret' = [left |-> ret.left, ab |-> ret.ab,
                       right |-> r.ret, bc |-> bc.ret]
            /\ err' = r.err
    /\ pc' = "a*(b*c)"
    /\ UNCHANGED <<Shape, data, vdata, arg, old, reads>>

NextChain ==
    \/ MatrixMultiplyLeftFirst
    \/ MatrixMultiplyRightFirst

SpecChain == InitChain /\ [][NextChain]_vars

\* C13: for a (R x C), b (C x C2) and c (C2 x C3) over an integer element
\* type with wraparound, (a * b) * c and a * (b * c) have the same shape and
\* are equal element for element, and neither raises.
C13_MultiplyIsAssociative ==
    /\ pc \in {"(a*b)*c", "a*(b*c)"} => err = "none"
    /\ pc = "a*(b*c)" =>
        /\ ret.left.Rows = ret.right.Rows
        /\ ret.left.Cols = ret.right.Cols
        /\ ret.left.Rows = Rows
        /\ ret.left.Cols = arg.Cols3
        /\ \A row \in 0..(Rows - 1), col \in 0..(arg.Cols3 - 1) :
            AtIndex(Rows, arg.Cols3, ret.left.data,
                    FlatIndex(Rows, row, col)).ret.value
            = AtIndex(Rows, arg.Cols3, ret.right.data,
                      FlatIndex(Rows, row, col)).ret.value

\* C13 witness: both groupings of a 1x2 by 2x2 by 2x1 product were computed,
\* and an element of an intermediate product wrapped around.
C13_Witness ==
    /\ pc = "a*(b*c)"
    /\ Rows = 1 /\ Cols = 2 /\ arg.Cols2 = 2 /\ arg.Cols3 = 1
    /\ data = Ramp(2, 100, 1)
    /\ arg.b = Ramp(4, 100, 1)
    /\ arg.c = Ramp(2, -3, 7)
    /\ ret.ab.data[0] # 100 * 100 + 101 * 101
    /\ ret.left.data = ret.right.data

\* ------------------------------------------------------- cross products
\* A 3-vector a, any contents.
InitCross ==
    /\ obj = "Vector"
    /\ Rows = 0
    /\ Cols = 0
    /\ data = NoData
    /\ Size = CrossSize
    /\ vdata \in Arrays(Size, VecVals)
    /\ pc = "Vector"
    /\ arg = NoArg
    /\ ret = Void
    /\ err = "none"
    /\ old = vdata
    /\ reads = {}

\* a.Cross(b) for another vector b.
VectorCross ==
    /\ Constructed
    /\ obj = "Vector"
    /\ \E b \in Arrays(CrossSize, VecVals), cross0 \in Fills(CrossSize) :
        /\ ret' = [kind |-> "Vector", Size |-> CrossSize,
                   data |-> Cross(vdata, b, cross0)]
        /\ arg' = [b |-> b, self |-> FALSE]
    /\ pc' = "Vector::Cross"
    /\ err' = "none"
    /\ old' = vdata
    /\ reads' = {}
    /\ UNCHANGED <<Shape, data, vdata>>

\* a.Cross(a): b refers to the object itself.
VectorCrossSelf ==
    /\ Constructed
    /\ obj = "Vector"
    /\ \E cross0 \in Fills(CrossSize) :
        ret' = [kind |-> "Vector", Size |-> CrossSize,
                data |-> Cross(vdata, vdata, cross0)]
    /\ arg' = [b |-> vdata, self |-> TRUE]
    /\ pc' = "Vector::Cross"
    /\ err' = "none"
    /\ old' = vdata
    /\ reads' = {}
    /\ UNCHANGED <<Shape, data, vdata>>

NextCross ==
    \/ VectorCross
    \/ VectorCrossSelf

SpecCross == InitCross /\ [][NextCross]_vars

\* C14: for 3-vectors a and b, a.Cross(b) is
\* (a1*b2 - a2*b1, a2*b0 - a0*b2, a0*b1 - a1*b0) in the element type's
\* arithmetic, it equals b.Cross(a) with every element negated (Scale(-1)),
\* and a.Cross(a) is the zero vector; a and b are left as they were.
C14_CrossIsAntiCommutative ==
    pc = "Vector::Cross" =>
        LET a == vdata
            b == arg.b
        IN  /\ err = "none"
            /\ ret.Size = CrossSize
            /\ ret.data[0] = NarrowToType(a[1] * b[2] - a[2] * b[1])
            /\ ret.data[1] = NarrowToType(a[2] * b[0] - a[0] * b[2])
            /\ ret.data[2] = NarrowToType(a[0] * b[1] - a[1] * b[0])
            /\ \A cross0 \in Fills(CrossSize) :
                ret.data = VectorScale(Cross(b, a, cross0), -1)
            /\ (b = a) => \A i \in 0..(CrossSize - 1) : ret.data[i] = 0
            /\ vdata = old

\* C14 witness: a cross product one of whose elements wrapped around.
C14_Witness ==
    /\ pc = "Vector::Cross"
    /\ vdata = (0 :> 1 @@ 1 :> 2 @@ 2 :> 3)
    /\ arg.b = (0 :> 3 @@ 1 :> 12 @@ 2 :> 127)
    /\ ret.data = (0 :> -38 @@ 1 :> -118 @@ 2 :> 6)

\* C14 witness of the second case: a.Cross(a) of a nonzero a.
C14_WitnessSelf ==
    /\ pc = "Vector::Cross"
    /\ arg.self
    /\ vdata = (0 :> 127 @@ 1 :> -128 @@ 2 :> 12)
    /\ ret.data = Ramp(CrossSize, 0, 0)

\* ------------------------------------------------------ in-place products
\* a.MultiplyInPlace(b) / a *= b for another matrix b of the same shape.
MatrixMultiplyInPlace ==
    /\ Constructed
    /\ obj = "Matrix"
    /\ \E mat \in ChainData(Rows * Cols), newMat0 \in Fills(Rows * Cols) :
        LET r == MultiplyInPlace(Rows, Cols, data, mat, FALSE, newMat0)
        IN  /\ data' = r.data
            /\ err' = r.err
            /\ arg' = [mat |-> mat, self |-> FALSE, matAfter |-> mat]
    /\ pc' = "Matrix::operator*="
    /\ ret' = Void
    /\ old' = data
    /\ reads' = {}
    /\ UNCHANGED <<Shape, vdata>>

\* a.MultiplyInPlace(a) / a *= a: mat refers to the object itself.
MatrixMultiplyInPlaceSelf ==
    /\ Constructed
    /\ obj = "Matrix"
    /\ \E newMat0 \in Fills(Rows * Cols) :
        LET r == MultiplyInPlace(Rows, Cols, data, data, TRUE, newMat0)
        IN  /\ data' = r.data
            /\ err' = r.err
            /\ arg' = [mat |-> data, self |-> TRUE, matAfter |-> r.data]
    /\ pc' = "Matrix::operator*="
    /\ ret' = Void
    /\ old' = data
    /\ reads' = {}
    /\ UNCHANGED <<Shape, vdata>>

NextInPlace ==
    \/ MatrixMultiplyInPlace
    \/ MatrixMultiplyInPlaceSelf

SpecInPlace == InitSquare /\ [][NextInPlace]_vars

\* C15: for a square matrix a and b of the same shape, after
\* a.MultiplyInPlace(b) (a *= b) a holds what a.Multiply(b) returns for the
\* a of before the call and b is unchanged; when b is a itself, a holds the
\* square of the old a.
C15_MultiplyInPlaceIsMultiply ==
    pc = "Matrix::operator*=" =>
        /\ err = "none"
        /\ \A newMat0 \in Fills(Rows * Cols) :
            LET r == Multiply(Rows, Cols, old, Cols, arg.mat, newMat0)
            IN  /\ r.err = "none"
                /\ r.ret.Rows = Rows
                /\ r.ret.Cols = Cols
                /\ data = r.ret.data
        /\ ~arg.self => arg.matAfter = arg.mat
        /\ arg.self =>
            /\ arg.mat = old
            /\ \A row \in 0..(Rows - 1), col \in 0..(Cols - 1) :
                data[FlatIndex(Rows, row, col)] =
                    Dot(Rows, Cols, old, old, row, col, Cols)

\* C15 witness: a *= a of a 2x2 matrix whose square differs from every
\* product of partly overwritten elements.
C15_Witness ==
    /\ pc = "Matrix::operator*="
    /\ arg.self
    /\ Rows = 2
    /\ old = Ramp(4, 1, 1)
    /\ data = (0 :> 7 @@ 1 :> 10 @@ 2 :> 15 @@ 3 :> 22)

\* C15 witness of the first case: a *= b for a b other than a.
C15_WitnessOther ==
    /\ pc = "Matrix::operator*="
    /\ ~arg.self
    /\ Rows = 2
    /\ old = Ramp(4, 1, 1)
    /\ arg.mat = Ramp(4, 100, 1)
    /\ data # old
    /\ arg.matAfter = arg.mat

====
